---- MODULE Spec2Model ----
(***************************************************************************)
(* A model of iSubRip's two core files:                                    *)
(*   src/isubrip/playlist_downloader.py  (PlaylistDownloader)              *)
(*   src/isubrip/scraper.py              (Scraper)                         *)
(*                                                                         *)
(* Four specifications share the module:                                   *)
(*   SpecDL       the downloader's scope: construction, the concurrent     *)
(*                segment batch of get_subtitles, merge, dumps, close      *)
(*   SpecScraper  Scraper.get_movie_data and its three parsing shapes      *)
(*   SpecTracks   Scraper.find_subtitles (a generator, one track a step)   *)
(*   SpecNames    PlaylistDownloader._format_file_name (a pure function)   *)
(* Strings are sequences of one-character strings, so that lower-casing    *)
(* and substring search are computed, not assumed.                         *)
(***************************************************************************)
EXTENDS Integers, Sequences, FiniteSets, TLC

VARIABLES
    \* ---- PlaylistDownloader ----
    dpc,          \* position of the caller: new, created, scope, fetching, written, raised, exited
    session,      \* self.session: "none", "open", "closed"
    headers,      \* self.session.headers: the set of header names updated
    track,        \* the segments of the sub-playlist, in playlist order
    task,         \* state of each asyncio task: "none", "pending", "done", "failed"
    results,      \* what asyncio.gather collects, by position
    reordered,    \* some task completed while an earlier one was still pending
    subtitles,    \* the Subtitles object: its cues, in order
    appended,     \* number of append_subtitles calls
    dumpsCalled,  \* Subtitles.dumps was called
    output,       \* what was written to the file
    dexc,         \* the exception leaving the body: "none" or its name
    \* ---- Scraper.get_movie_data ----
    req,             \* the URL's kind and the response: content type, fault, document
    spc,             \* "idle", "scan" (inside a candidate loop), "done"
    tried,           \* the parsing strategies attempted, in order
    pos,             \* <<entry, asset>>: the candidate whose playlist is loaded next
    calls,           \* the URLs given to m3u8.load, in call order
    lastOutcome,     \* how the latest m3u8.load ended
    validated,       \* the URLs whose m3u8.load succeeded
    itunes_ids_set,  \* the local set of _find_playlist_data_appletv_json_
    playlists,       \* the local list of _find_playlist_data_appletv_json_
    movie,           \* the MovieData returned, or None
    sexc,            \* the exception raised to the caller: "none" or its name
    \* ---- Scraper.find_subtitles ----
    tpc,          \* the generator: "new", "iter", "end"
    tfilter,      \* subtitles_filter as given: None or a list of strings
    lfilter,      \* subtitles_filter after line 291
    tidx,         \* number of elements of main_playlist.media gone through
    cur,          \* the element of main_playlist.media the loop body just ran on
    yielded,      \* the SubtitlesData the body yielded for cur, or None
    \* ---- PlaylistDownloader._format_file_name ----
    npc,          \* "call", "done"
    nargs,        \* the arguments
    fileName      \* the value returned, or None

dvars == <<dpc, session, headers, track, task, results, reordered, subtitles,
           appended, dumpsCalled, output, dexc>>

svars == <<req, spc, tried, pos, calls, lastOutcome, validated, itunes_ids_set,
           playlists, movie, sexc>>

tvars == <<tpc, tfilter, lfilter, tidx, cur, yielded>>

nvars == <<npc, nargs, fileName>>

vars == <<dvars, svars, tvars, nvars>>

\* Python's None and a present value
None == <<>>
Some(x) == <<x>>

\* ------------------------------------------------------------------ bounds
MaxSegs == 3
MaxEntries == 2
MaxAssets == 2
MaxFilter == 2
MaxMedia == 2
MaxTitleLen == 4

\* ------------------------------------------------------------------ strings
\* A string is a sequence of one-character strings.
UpperCase == <<"A", "B", "C", "D", "E", "F", "G", "H", "I", "J", "K", "L", "M",
               "N", "O", "P", "Q", "R", "S", "T", "U", "V", "W", "X", "Y", "Z">>

LowerCase == <<"a", "b", "c", "d", "e", "f", "g", "h", "i", "j", "k", "l", "m",
               "n", "o", "p", "q", "r", "s", "t", "u", "v", "w", "x", "y", "z">>

LowerChar(c) ==
    IF \E i \in DOMAIN UpperCase : UpperCase[i] = c
    THEN LowerCase[CHOOSE i \in DOMAIN UpperCase : UpperCase[i] = c]
    ELSE c

\* str.lower
Lower(s) == [i \in DOMAIN s |-> LowerChar(s[i])]

\* `sub in s` for strings
Contains(sub, s) ==
    \E i \in 1..(Len(s) - Len(sub) + 1) : SubSeq(s, i, i + Len(sub) - 1) = sub

DigitChars == <<"0", "1", "2", "3", "4", "5", "6", "7", "8", "9">>

\* str(n) for n >= 0
RECURSIVE IntStr(_)
IntStr(n) ==
    IF n < 10 THEN <<DigitChars[n + 1]>>
    ELSE IntStr(n \div 10) \o <<DigitChars[(n % 10) + 1]>>

\* ================================================================ downloader
\* A remote segment: how its fetch ends, and the body the server sends.
\*   ok         status 200, body decodable
\*   http_error a non-success status (404, 500): the server still sends a body
\*   transport  session.get / data.read raises (aiohttp.ClientError)
\*   decode     the body is not UTF-8: content.decode raises
Payloads == { <<"WEBVTT", "c1">>, <<"WEBVTT", "c2", "c3">> }

Segments ==
    [kind : {"ok", "http_error"}, body : Payloads]
        \cup [kind : {"transport", "decode"}, body : {<<>>}]

Tracks == UNION { [1..n -> Segments] : n \in 0..MaxSegs }

Formats == {"VTT", "SRT"}

\* _download_segment: get, read, decode. The response's status is never looked at.
DownloadSegmentSwallow(seg) ==
    IF seg.kind \in {"transport", "decode"}
    THEN [ok |-> TRUE, text |-> <<"WEBVTT">>, err |-> "none"]
    ELSE [ok |-> TRUE, text |-> seg.body, err |-> "none"]

DownloadSegment(seg) ==
    IF seg.kind = "transport"
    THEN [ok |-> FALSE, text |-> <<>>, err |-> "ClientError"]
    ELSE IF seg.kind = "decode"
    THEN [ok |-> FALSE, text |-> <<>>, err |-> "UnicodeDecodeError"]
    ELSE [ok |-> TRUE, text |-> seg.body, err |-> "none"]

\* asyncio.gather(*async_tasks): the result of the i-th awaitable is the i-th
\* element of the returned list.
FirstFree(res) == CHOOSE k \in DOMAIN res : res[k] = None /\ \A j \in 1..(k-1) : res[j] # None

GatherCompletionOrder(res, i, text) == [res EXCEPT ![FirstFree(res)] = Some(text)]

Gather(res, i, text) == [res EXCEPT ![i] = Some(text)]

\* Subtitles.loads: the cues of one segment's text (the header line is not a cue).
Loads(text) == IF Len(text) > 0 /\ Head(text) = "WEBVTT" THEN Tail(text) ELSE text

\* subtitles.append_subtitles(other): the other's cues after one's own.
AppendSubtitles(cues, other) == cues \o other

\* the loop of get_subtitles: for segment in segments: append(loads(segment))
RECURSIVE MergeSegments(_, _)
MergeSegments(cues, segs) ==
    IF segs = <<>> THEN cues
    ELSE MergeSegments(AppendSubtitles(cues, Loads(Head(segs))), Tail(segs))

\* Subtitles.dumps(file_format)
Dumps(cues, fmt) == IF fmt = "VTT" THEN <<"WEBVTT">> \o cues ELSE cues

\* __exit__: close() whatever exc_type is.
ExitClosesOnSuccessOnly(excType) == excType = "none"

ExitCloses(excType) == TRUE

\* the state before the downloader is constructed, for a sub-playlist of ts
DLInit(ts) ==
    /\ dpc = "new"
    /\ session = "none"
    /\ headers = {}
    /\ track \in ts
    /\ task = [k \in DOMAIN track |-> "none"]
    /\ results = [k \in DOMAIN track |-> None]
    /\ reordered = FALSE
    /\ subtitles = <<>>
    /\ appended = 0
    /\ dumpsCalled = FALSE
    /\ output = None
    /\ dexc = "none"

\* PlaylistDownloader(user_agent)
Construct ==
    /\ dpc = "new"
    /\ \E ua \in {None, Some("ua")} :
          headers' = IF ua # None THEN {"user-agent"} ELSE {}
    /\ session' = "open"
    /\ dpc' = "created"
    /\ UNCHANGED <<track, task, results, reordered, subtitles, appended,
                   dumpsCalled, output, dexc>>
    /\ UNCHANGED <<svars, tvars, nvars>>

\* with ... as downloader:
Enter ==
    /\ dpc = "created"
    /\ dpc' = "scope"
    /\ UNCHANGED <<session, headers, track, task, results, reordered, subtitles,
                   appended, dumpsCalled, output, dexc>>
    /\ UNCHANGED <<svars, tvars, nvars>>

\* download_subtitles up to the point where get_subtitles waits for the batch:
\* the file is opened, the playlist is loaded, one task per segment is created.
DownloadSubtitles ==
    /\ dpc = "scope"
    /\ \E loaded \in BOOLEAN :
          IF loaded
          THEN /\ task' = [k \in DOMAIN track |-> "pending"]
               /\ dpc' = "fetching"
               /\ dexc' = dexc
          ELSE /\ task' = task
               /\ dpc' = "raised"
               /\ dexc' = "PlaylistLoadError"
    /\ UNCHANGED <<session, headers, track, results, reordered, subtitles,
                   appended, dumpsCalled, output>>
    /\ UNCHANGED <<svars, tvars, nvars>>

\* one task of the batch runs to its end; the first failure ends gather.
Complete(i) ==
    /\ dpc = "fetching"
    /\ task[i] = "pending"
    /\ LET r == DownloadSegment(track[i]) IN
          IF r.ok
          THEN /\ task' = [task EXCEPT ![i] = "done"]
               /\ results' = Gather(results, i, r.text)
               /\ reordered' = (reordered \/ \E j \in 1..(i-1) : task[j] = "pending")
               /\ UNCHANGED <<dpc, dexc>>
          ELSE /\ task' = [task EXCEPT ![i] = "failed"]
               /\ dexc' = r.err
               /\ dpc' = "raised"
               /\ UNCHANGED <<results, reordered>>
    /\ UNCHANGED <<session, headers, track, subtitles, appended, dumpsCalled, output>>
    /\ UNCHANGED <<svars, tvars, nvars>>

\* gather returns: the merge loop, then dumps and the write of download_subtitles.
GatherReturn ==
    /\ dpc = "fetching"
    /\ \A k \in DOMAIN task : task[k] = "done"
    /\ subtitles' = MergeSegments(<<>>, [k \in DOMAIN results |-> results[k][1]])
    /\ appended' = Len(results)
    /\ \E fmt \in Formats : output' = Some(Dumps(subtitles', fmt))
    /\ dumpsCalled' = TRUE
    /\ dpc' = "written"
    /\ UNCHANGED <<session, headers, track, task, results, reordered, dexc>>
    /\ UNCHANGED <<svars, tvars, nvars>>

\* leaving the with block, normally or with the exception: __exit__ -> close()
Exit ==
    /\ dpc \in {"scope", "written", "raised"}
    /\ session' = IF ExitCloses(dexc) THEN "closed" ELSE session
    /\ dpc' = "exited"
    /\ UNCHANGED <<headers, track, task, results, reordered, subtitles, appended,
                   dumpsCalled, output, dexc>>
    /\ UNCHANGED <<svars, tvars, nvars>>

\* =================================================================== scraper
\* How one m3u8.load(playlist_url) ends:
\*   valid        the playlist loads and parses
\*   parse_error  ValueError
\*   http_error   urllib.error.HTTPError (an HTTP error status)
\*   url_error    any other transport error (urllib.error.URLError, a timeout)
Outcomes == {"valid", "parse_error", "http_error", "url_error"}

Ids == {"id1", "id2"}

\* An entry of the response's list (an offer of the iTunes shapes, a playable of
\* the AppleTV shape) with the number of assets (AppleTV: offers) it lists. The
\* URL of asset a of entry o is <<o, a>>.
JsonEntries ==
    [type : {"other"}, id : {"id1"}, n : {0}]
        \cup [type : {"buy", "rent"}, id : {"id1"}, n : 0..MaxAssets]

HtmlEntries ==
    [type : {"other"}, id : {"id1"}, n : {0}]
        \cup [type : {"offer"}, id : {"id1"}, n : 0..MaxAssets]

AtvEntries ==
    [type : {"other"}, id : {"id1"}, n : {0}]
        \cup [type : {"itunes"}, id : Ids, n : 0..MaxAssets]

Docs(E) == UNION { [1..k -> E] : k \in 0..MaxEntries }

Requests ==
    [kind : {"invalid"}, ctype : {"none"}, fault : {"none"}, doc : {<<>>},
     title : {"Example Movie"}, year : {2021}]
    \cup [kind : {"itunes"}, ctype : {"json"}, fault : {"none"}, doc : Docs(JsonEntries),
          title : {"Example Movie"}, year : {2021}]
    \cup [kind : {"itunes"}, ctype : {"json"},
          fault : {"http_error", "bad_json", "missing_field"}, doc : {<<>>},
          title : {"Example Movie"}, year : {2021}]
    \cup [kind : {"itunes"}, ctype : {"html"}, fault : {"none"}, doc : Docs(HtmlEntries),
          title : {"Example Movie"}, year : {2021}]
    \cup [kind : {"itunes"}, ctype : {"html"},
          fault : {"http_error", "no_id_tag", "no_shoebox", "included_not_list",
                   "missing_field"},
          doc : {<<>>}, title : {"Example Movie"}, year : {2021}]
    \cup [kind : {"itunes"}, ctype : {"xml"}, fault : {"none", "http_error"}, doc : {<<>>},
          title : {"Example Movie"}, year : {2021}]
    \cup [kind : {"appletv"}, ctype : {"json"}, fault : {"none"}, doc : Docs(AtvEntries),
          title : {"Example Movie"}, year : {2021}]
    \cup [kind : {"appletv"}, ctype : {"json"},
          fault : {"http_error", "bad_json", "missing_field"}, doc : {<<>>},
          title : {"Example Movie"}, year : {2021}]

\* get_movie_data's dispatch: the one parsing function the URL's kind and the
\* response's content type select.
Strategy(r) ==
    IF r.kind = "itunes" /\ r.ctype = "json" THEN "itunes_json"
    ELSE IF r.kind = "itunes" /\ r.ctype = "html" THEN "itunes_html"
    ELSE IF r.kind = "appletv" THEN "appletv_json"
    ELSE "none"

\* What get_movie_data does when the selected parsing function raises: the call
\* is a plain `return f(data)`, so there is no next strategy.
AfterParseErrorFallback(strategy) ==
    IF strategy = "itunes_json" THEN "itunes_html" ELSE "none"

AfterParseError(strategy) == "none"

\* the exception a fault of the response raises in the selected strategy
FaultException(strategy, fault) ==
    IF fault = "http_error" THEN "HTTPError"
    ELSE IF fault = "bad_json"
         THEN (IF strategy = "itunes_json" THEN "PageLoadError" ELSE "JSONDecodeError")
    ELSE IF fault = "missing_field" THEN "KeyError"
    ELSE "PageLoadError"

MovieData(source, r, list) ==
    [source |-> source, name |-> r.title, release_year |-> r.year, playlists |-> list]

Source(strategy) == IF strategy = "appletv_json" THEN "APPLETV" ELSE "ITUNES"

\* the conditions under which an entry's assets are looped over
Qualifies(strategy, e, ids) ==
    IF strategy = "itunes_json" THEN e.type \in {"buy", "rent"} /\ e.n > 0
    ELSE IF strategy = "itunes_html" THEN e.type = "offer" /\ e.n > 0
    ELSE e.type = "itunes" /\ e.id \notin ids

\* the first candidate of the entries from o on, <<0, 0>> when there is none
RECURSIVE FirstCandFrom(_, _, _, _)
FirstCandFrom(strategy, doc, ids, o) ==
    IF o > Len(doc) THEN <<0, 0>>
    ELSE IF Qualifies(strategy, doc[o], ids) /\ doc[o].n > 0 THEN <<o, 1>>
    ELSE FirstCandFrom(strategy, doc, ids, o + 1)

\* `continue`: the next asset of the entry, else the next entry's first
NextCand(strategy, doc, ids, p) ==
    IF p[2] < doc[p[1]].n THEN <<p[1], p[2] + 1>>
    ELSE FirstCandFrom(strategy, doc, ids, p[1] + 1)

\* the URL given to m3u8.load for the asset at p
PlaylistUrl(strategy, p) ==
    IF strategy = "itunes_html" THEN <<p[1], 1>> ELSE p

\* the except clauses around m3u8.load: ValueError and HTTPError
Catches(out) == out \in {"parse_error", "http_error"}

\* what itunes_ids_set holds after a playlist of id was appended
IdsAfterAppend(ids, id) == ids

\* the state before get_movie_data is called, for a request of rs
ScraperInit(rs) ==
    /\ req \in rs
    /\ spc = "idle"
    /\ tried = <<>>
    /\ pos = <<0, 0>>
    /\ calls = <<>>
    /\ lastOutcome = "none"
    /\ validated = {}
    /\ itunes_ids_set = {}
    /\ playlists = <<>>
    /\ movie = None
    /\ sexc = "none"

Raise(e) ==
    /\ sexc' = e
    /\ movie' = None
    /\ spc' = "done"
    /\ pos' = <<0, 0>>

Return(m) ==
    /\ movie' = Some(m)
    /\ sexc' = "none"
    /\ spc' = "done"
    /\ pos' = <<0, 0>>

\* get_movie_data up to the first m3u8.load: the URL's pattern, the request,
\* the dispatch on the content type, and the head of the selected parser.
GetMovieData ==
    /\ spc = "idle"
    /\ LET s == Strategy(req) IN
          IF req.kind = "invalid" THEN Raise("InvalidURL") /\ tried' = tried
          ELSE IF req.fault = "http_error" THEN Raise("HTTPError") /\ tried' = tried
          ELSE IF s = "none" THEN Raise("PageLoadError") /\ tried' = tried
          ELSE IF req.fault = "bad_json"
               THEN Raise(FaultException(s, req.fault)) /\ tried' = tried
          ELSE IF req.fault # "none"
               THEN IF req.fault = "missing_field" /\ AfterParseError(s) # "none"
                    THEN \* the fallback parser is given the same response
                         /\ tried' = <<s, AfterParseError(s)>>
                         /\ Raise("PageLoadError")
                    ELSE /\ tried' = <<s>>
                         /\ Raise(FaultException(s, req.fault))
          ELSE /\ tried' = <<s>>
               /\ LET first == FirstCandFrom(s, req.doc, {}, 1) IN
                     IF first = <<0, 0>>
                     THEN Return(MovieData(Source(s), req, <<>>))
                     ELSE /\ pos' = first
                          /\ spc' = "scan"
                          /\ UNCHANGED <<movie, sexc>>
    /\ UNCHANGED <<req, calls, lastOutcome, validated, itunes_ids_set, playlists>>
    /\ UNCHANGED <<dvars, tvars, nvars>>

\* one m3u8.load of a candidate loop and what the loop does with its outcome,
\* up to the next m3u8.load or the end of the parser.
Validate ==
    /\ spc = "scan"
    /\ \E out \in Outcomes :
          LET s   == tried[Len(tried)]
              e   == req.doc[pos[1]]
              url == PlaylistUrl(s, pos)
          IN  /\ calls' = Append(calls, url)
              /\ lastOutcome' = out
              /\ IF out = "valid"
                 THEN /\ validated' = validated \cup {url}
                      /\ IF s = "appletv_json"
                         THEN LET list == Append(playlists, [id |-> e.id, url |-> url])
                                  ids  == IdsAfterAppend(itunes_ids_set, e.id)
                                  nxt  == FirstCandFrom(s, req.doc, ids, pos[1] + 1)
                              IN  /\ playlists' = list
                                  /\ itunes_ids_set' = ids
                                  /\ IF nxt = <<0, 0>>
                                     THEN Return(MovieData(Source(s), req, list))
                                     ELSE /\ pos' = nxt
                                          /\ UNCHANGED <<spc, movie, sexc>>
                         ELSE /\ Return(MovieData(Source(s), req,
                                                  <<[id |-> e.id, url |-> url]>>))
                              /\ UNCHANGED <<playlists, itunes_ids_set>>
                 ELSE /\ UNCHANGED <<validated, playlists, itunes_ids_set>>
                      /\ IF Catches(out)
                         THEN LET nxt == NextCand(s, req.doc, itunes_ids_set, pos) IN
                                 IF nxt = <<0, 0>>
                                 THEN Return(MovieData(Source(s), req, playlists))
                                 ELSE /\ pos' = nxt
                                      /\ UNCHANGED <<spc, movie, sexc>>
                         ELSE Raise("URLError")
    /\ UNCHANGED <<req, tried>>
    /\ UNCHANGED <<dvars, tvars, nvars>>

\* ============================================================ find_subtitles
S_en == <<"e", "n">>
S_EN == <<"E", "N">>
S_fr == <<"f", "r">>
S_English == <<"E", "n", "g", "l", "i", "s", "h">>
S_english == <<"e", "n", "g", "l", "i", "s", "h">>
S_ENGLISH == <<"E", "N", "G", "L", "I", "S", "H">>
S_French == <<"F", "r", "e", "n", "c", "h">>

FilterEntries == {S_en, S_EN, S_fr, S_English, S_english, S_ENGLISH}

Filters == {None} \cup { Some(f) : f \in UNION { [1..k -> FilterEntries] : k \in 1..MaxFilter } }

\* the language code and name of a track
Languages == { <<S_en, S_English>>, <<S_EN, S_english>>, <<S_en, S_english>>,
               <<S_fr, S_French>> }

Media ==
    { [type |-> t, group_id |-> g, language |-> l[1], name |-> l[2], forced |-> f,
       characteristics |-> c, uri |-> "sub.m3u8"] :
        t \in {"SUBTITLES", "AUDIO"},
        g \in {"subtitles_ak", "subtitles_vod-ak-amt.tv.apple.com", "subtitles_ap2"},
        l \in Languages,
        f \in {"YES", "NO"},
        c \in {None, Some("public.accessibility.describes-music-and-sound"),
              Some("public.easy-to-read")} }

\* line 297
IsSubtitlesPlaylist(m) ==
    m.type = "SUBTITLES"
        /\ m.group_id \in {"subtitles_ak", "subtitles_vod-ak-amt.tv.apple.com"}

\* line 291: [f.lower() for f in subtitles_filter]
LowerFilter(f) ==
    IF f = None THEN None ELSE Some([k \in DOMAIN f[1] |-> Lower(f[1][k])])

InList(x, list) == \E k \in DOMAIN list : list[k] = x

\* line 304, negated: the playlist matches the filter
MatchesFilter(lf, language_code, language_name) ==
    lf = None \/ InList(Lower(language_code), lf[1]) \/ InList(language_name, lf[1])

\* `"public.accessibility" in playlist.characteristics`
HasAccessibility(c) == c[1] = "public.accessibility.describes-music-and-sound"

\* lines 301-312
SubType(m) ==
    IF m.forced = "YES" THEN "FORCED"
    ELSE IF m.characteristics # None /\ HasAccessibility(m.characteristics) THEN "CC"
    ELSE "NORMAL"

SubtitlesData(m) ==
    [language_code |-> m.language, language_name |-> m.name,
     subtitles_type |-> SubType(m), playlist_url |-> m.uri]

\* the state before find_subtitles is called, for a filter of fs
TracksInit(fs) ==
    /\ tpc = "new"
    /\ tfilter \in fs
    /\ lfilter = None
    /\ tidx = 0
    /\ cur = None
    /\ yielded = None

\* the generator starts running: lines 289-291
FindSubtitles ==
    /\ tpc = "new"
    /\ lfilter' = LowerFilter(tfilter)
    /\ tpc' = "iter"
    /\ UNCHANGED <<tfilter, tidx, cur, yielded>>
    /\ UNCHANGED <<dvars, svars, nvars>>

\* one turn of the loop over main_playlist.media
NextPlaylist ==
    /\ tpc = "iter"
    /\ tidx < MaxMedia
    /\ \E m \in Media :
          /\ cur' = Some(m)
          /\ yielded' = IF IsSubtitlesPlaylist(m)
                           /\ MatchesFilter(lfilter, m.language, m.name)
                        THEN Some(SubtitlesData(m))
                        ELSE None
    /\ tidx' = tidx + 1
    /\ UNCHANGED <<tpc, tfilter, lfilter>>
    /\ UNCHANGED <<dvars, svars, nvars>>

\* main_playlist.media is exhausted: the generator ends
EndOfMedia ==
    /\ tpc = "iter"
    /\ tpc' = "end"
    /\ cur' = None
    /\ yielded' = None
    /\ UNCHANGED <<tfilter, lfilter, tidx>>
    /\ UNCHANGED <<dvars, svars, nvars>>

\* ========================================================= _format_file_name
TitleChars == {"A", " ", "2", "1"}

Titles == UNION { [1..k -> TitleChars] : k \in 1..MaxTitleLen }

Years == {21, 2112}

LanguageCodes == { S_en, <<"p", "t", "-", "B", "R">> }

\* SubtitlesType and SubtitlesFormat: the members' names
SubtitlesTypes == { <<"N", "O", "R", "M", "A", "L">>, <<"F", "O", "R", "C", "E", "D">>,
                    <<"C", "C">> }

SubtitlesFormats == { <<"V", "T", "T">>, <<"S", "R", "T">> }

NORMAL == <<"N", "O", "R", "M", "A", "L">>

\* isubrip.utils.format_title: the title lower-cased, its spaces made dots
FormatTitle(title) ==
    [i \in DOMAIN title |-> IF title[i] = " " THEN "." ELSE LowerChar(title[i])]

\* line 61
YearAlways(movie_title, release_year) == <<".">> \o IntStr(release_year)

ReleaseYearStr(movie_title, release_year) ==
    IF ~Contains(IntStr(release_year), movie_title)
    THEN <<".">> \o IntStr(release_year)
    ELSE <<>>

\* lines 65-66
TypeSuffix(subtitles_type) ==
    IF subtitles_type # NORMAL THEN <<".">> \o Lower(subtitles_type) ELSE <<>>

FormatFileName(movie_title, release_year, language_code, subtitles_type, file_format) ==
    FormatTitle(movie_title) \o ReleaseYearStr(movie_title, release_year)
        \o <<".", "i", "T", ".", "W", "E", "B", ".">> \o language_code
        \o TypeSuffix(subtitles_type)
        \o <<".">> \o Lower(file_format)

Arguments ==
    [movie_title : Titles, release_year : Years, language_code : LanguageCodes,
     subtitles_type : SubtitlesTypes, file_format : SubtitlesFormats]

\* the state before _format_file_name is called, for arguments of as
NamesInit(as) ==
    /\ npc = "call"
    /\ nargs \in as
    /\ fileName = None

FormatFileNameCall ==
    /\ npc = "call"
    /\ fileName' = Some(FormatFileName(nargs.movie_title, nargs.release_year,
                                       nargs.language_code, nargs.subtitles_type,
                                       nargs.file_format))
    /\ npc' = "done"
    /\ UNCHANGED nargs
    /\ UNCHANGED <<dvars, svars, tvars>>

\* ============================================================ specifications
\* Each specification runs one part of the program; the other parts stay in
\* their initial state.
DLIdle == DLInit({<<>>})

ScraperIdle ==
    ScraperInit({[kind |-> "invalid", ctype |-> "none", fault |-> "none", doc |-> <<>>,
                  title |-> "Example Movie", year |-> 2021]})

TracksIdle == TracksInit({None})

NamesIdle ==
    NamesInit({[movie_title |-> <<"A">>, release_year |-> 21, language_code |-> S_en,
                subtitles_type |-> NORMAL, file_format |-> <<"V", "T", "T">>]})

InitDL == DLInit(Tracks) /\ ScraperIdle /\ TracksIdle /\ NamesIdle

NextDL ==
    \/ Construct
    \/ Enter
    \/ DownloadSubtitles
    \/ \E i \in DOMAIN track : Complete(i)
    \/ GatherReturn
    \/ Exit

SpecDL == InitDL /\ [][NextDL]_vars

InitScraper == ScraperInit(Requests) /\ DLIdle /\ TracksIdle /\ NamesIdle

NextScraper ==
    \/ GetMovieData
    \/ Validate

SpecScraper == InitScraper /\ [][NextScraper]_vars

InitTracks == TracksInit(Filters) /\ DLIdle /\ ScraperIdle /\ NamesIdle

NextTracks ==
    \/ FindSubtitles
    \/ NextPlaylist
    \/ EndOfMedia

SpecTracks == InitTracks /\ [][NextTracks]_vars

InitNames == NamesInit(Arguments) /\ DLIdle /\ ScraperIdle /\ TracksIdle

NextNames == FormatFileNameCall

SpecNames == InitNames /\ [][NextNames]_vars

\* ------------------------------------------------------------ claims, SpecDL
\* the document the playlist order calls for: segment 1's cues, then segment 2's, ...
RECURSIVE CuesInPlaylistOrder(_)
CuesInPlaylistOrder(n) ==
    IF n = 0 THEN <<>> ELSE CuesInPlaylistOrder(n - 1) \o Loads(track[n].body)

\* C1: whatever order the concurrent fetches complete in, the merged document
\* holds the segments' cues in playlist order, so every interleaving yields the
\* same document.
C1_MergeInPlaylistOrder ==
    dpc = "written" => subtitles = CuesInPlaylistOrder(Len(track))

\* a batch that completed out of playlist order, over segments that differ
C1_Witness ==
    /\ dpc = "written"
    /\ reordered
    /\ \E i, j \in DOMAIN track : i < j /\ track[i].body # track[j].body

FailingSegment == \E i \in DOMAIN track : track[i].kind \in {"transport", "decode"}

\* C2: when the fetch of any segment of the batch fails with a transport or
\* decode error, nothing is merged and nothing is serialized, however many
\* other segments completed; the body ends with the error.
C2_AllOrNothing ==
    FailingSegment =>
        /\ appended = 0
        /\ subtitles = <<>>
        /\ ~dumpsCalled
        /\ output = None
        /\ dpc # "written"
        /\ (dpc = "exited" /\ \E k \in DOMAIN task : task[k] # "none") => dexc # "none"

\* the last segment failed after every other segment had completed
C2_Witness ==
    /\ dpc = "raised"
    /\ Len(track) >= 3
    /\ task[Len(track)] = "failed"
    /\ \A k \in 1..(Len(track) - 1) : task[k] = "done"
    /\ dexc \in {"ClientError", "UnicodeDecodeError"}

\* C3: a segment whose response has a non-success status counts as a failed
\* fetch: the batch fails and that body is never merged.
C3_ErrorStatusFailsBatch ==
    (\E i \in DOMAIN track : track[i].kind = "http_error") =>
        /\ appended = 0
        /\ dpc # "written"

\* C9: on every exit path from the downloader's scope, normal or failing, the
\* session is closed.
C9_SessionClosedOnExit ==
    /\ dpc = "exited" => session = "closed"
    /\ session = "open" => dpc \in {"created", "scope", "fetching", "written", "raised"}

\* the scope was left with a failed segment batch
C9_Witness ==
    /\ dpc = "exited"
    /\ dexc \in {"ClientError", "UnicodeDecodeError"}
    /\ session = "closed"

\* ------------------------------------------------------- claims, SpecScraper
JsonStrategies == {"itunes_json", "appletv_json"}

HtmlStrategyOf(strategy) ==
    IF strategy = "itunes_json" THEN "itunes_html" ELSE "appletv_html"

C5_OnePerPlatformId ==
    (spc = "done" /\ req.kind = "appletv" /\ movie # None) =>
        \A i, j \in DOMAIN movie[1].playlists :
            i # j => movie[1].playlists[i].id # movie[1].playlists[j].id

\* C6: no failure of a candidate's validation, of whatever kind, raises to the
\* caller: the candidate is skipped; and each validation is attempted once.
C6_ValidationNeverRaises ==
    /\ lastOutcome \notin {"none", "valid"} => sexc = "none"
    /\ \A i, j \in DOMAIN calls : i # j => calls[i] # calls[j]

\* C7: a well-formed response of any of the three shapes in which no candidate
\* validates yields, without an exception, a MovieData with the title and the
\* release year and an empty playlist list.
C7_NoValidCandidateIsNotAnError ==
    (spc = "done" /\ Strategy(req) # "none" /\ req.fault = "none" /\ validated = {}) =>
        /\ sexc = "none"
        /\ movie # None
        /\ movie[1].playlists = <<>>
        /\ movie[1].name = req.title
        /\ movie[1].release_year = req.year

\* the candidate assets of an iTunes response, in source order
RECURSIVE CandidatesFrom(_, _, _)
CandidatesFrom(strategy, doc, p) ==
    IF p = <<0, 0>> THEN <<>>
    ELSE <<p>> \o CandidatesFrom(strategy, doc, NextCand(strategy, doc, {}, p))

CandidateOrder(strategy, doc) ==
    CandidatesFrom(strategy, doc, FirstCandFrom(strategy, doc, {}, 1))

\* C11: for an iTunes response of either shape, the playlists loaded are the
\* candidate assets' own URLs, in source order; the list returned is empty only
\* when every candidate was tried and none validated, and otherwise holds the
\* URL of the candidate that was just validated.
C11_EachCandidatesOwnUrl ==
    (req.kind = "itunes" /\ tried # <<>>) =>
        LET cands == CandidateOrder(tried[1], req.doc) IN
            /\ Len(calls) <= Len(cands)
            /\ \A k \in DOMAIN calls : calls[k] = cands[k]
            /\ (spc = "done" /\ movie # None) =>
                  IF movie[1].playlists = <<>>
                  THEN validated = {} /\ Len(calls) = Len(cands)
                  ELSE /\ Len(movie[1].playlists) = 1
                       /\ movie[1].playlists[1].url \in validated
                       /\ movie[1].playlists[1].url = cands[Len(calls)]

\* -------------------------------------------------------- claims, SpecTracks
\* C8: with a filter, a qualifying track is yielded exactly when some filter
\* entry equals, ignoring case, the track's language code or its language name.
C8_FilterIgnoresCase ==
    (tpc = "iter" /\ cur # None /\ tfilter # None /\ IsSubtitlesPlaylist(cur[1])) =>
        (yielded # None <=>
            \E k \in DOMAIN tfilter[1] :
                \/ Lower(tfilter[1][k]) = Lower(cur[1].language)
                \/ Lower(tfilter[1][k]) = Lower(cur[1].name))

====
